---- MODULE Spec2Model ----
(***************************************************************************)
(* Model of the fitness studio booking API (src/app.py).                   *)
(*                                                                         *)
(* The Flask application keeps two module-level globals, `classes` and     *)
(* `bookings`, and serves four routes.  app.run() serves each request on   *)
(* its own thread, so the handlers interleave at every access to the       *)
(* shared globals and to the class dictionaries they hold.                 *)
(*                                                                         *)
(* Strings are sequences of one-character strings so that str.lower() is   *)
(* computed.  In Python a missing key (None) and an empty string are both  *)
(* falsy and are treated alike by every test in the handlers; both are     *)
(* modelled by the empty value.  uuid4 values are modelled by fresh        *)
(* integers.  Time stamps (datetime.now()) are not modelled.               *)
(***************************************************************************)
EXTENDS Integers, Sequences, FiniteSets, TLC

\* ------------------------------------------------------------- bounds
\* Number of request-handling threads of the server.
NumThreads == 2
\* Number of POST /test/reset_data requests served in one run.
MaxResets == 2
\* The runs with concurrent bookings cap the seed capacities (18, 12, 25, 14)
\* at SlotCap, which keeps the state space small.
SlotCap == 1
\* Requests book the first NumBookable classes of a catalog.
NumBookable == 1
\* Longest ledger the query handler is started with.
MaxLedger == 3

Threads == 1..NumThreads

\* ------------------------------------------------------ program constants
\* total_slots of the four seed classes, in list order.
SeedTotalSlots == <<18, 12, 25, 14>>
SeedNames == <<"Sunrise Yoga & Meditation", "Power HIIT Blast",
               "Groovy Zumba Fiesta", "Core Strength Pilates">>
SeedInstructors == <<"Zen Master Yoda", "Captain America",
                     "Beyonce Knowles", "Wonder Woman">>
NumSeeds == Len(SeedTotalSlots)

Min(a, b) == IF a < b THEN a ELSE b

\* HTTP status codes returned by the handlers.
OK == 200
Created == 201
BadRequest == 400
NotFound == 404
Conflict == 409
ServerError == 500

\* ------------------------------------------------------------- inputs
\* The falsy class_id (key missing or "").
NoId == 0
\* A class_id that no uuid4 ever equals ("non-existent-id" of the tests).
BadId == -1
\* The falsy string (key missing or "").
EmptyStr == <<>>
ClientNames == {EmptyStr, <<"A", "l">>}
ClientEmails == {EmptyStr, <<"A", "@", "B">>, <<"c", "@", "d">>}
QueryEmails == ClientEmails \cup {<<"a", "@", "b">>}

\* str.lower() on the characters the inputs use.
LowerChar(c) ==
    CASE c = "A" -> "a"
      [] c = "B" -> "b"
      [] OTHER -> c
\* Lower that leaves the case alone.
LowerIdentity(s) == s

Lower(s) == [i \in DOMAIN s |-> LowerChar(s[i])]

\* Python truthiness of a request field.
TruthyId(v) == v # NoId
TruthyStr(v) == v # EmptyStr

VARIABLES
    bound,      \* which of the module globals "classes", "bookings" are bound
    classes,    \* global `classes`: list of references (ids) to class dicts
    bookings,   \* global `bookings`: list of booking records
    heap,       \* the class dicts that are still referenced: id -> dict
    resets,     \* number of reset requests started
    uuids,      \* number of booking uuids drawn
    pc,         \* per thread: position in the handler it is running
    local,      \* per thread: local variables of book_a_fitness_class
    resp,       \* the response most recently returned by a handler
    cap         \* the run's capacity cut-off: a seed class gets min(seed, cap) slots

vars == <<bound, classes, bookings, heap, resets, uuids, pc, local, resp, cap>>

NoTarget == 0
\* The locals of book_a_fitness_class.  `observed` is the value the check of
\* line 120 read and `loaded` the value line 126 read.
NoLocal == [class_id |-> NoId, client_name |-> EmptyStr, client_email |-> EmptyStr,
            target_class |-> NoTarget, observed |-> 0, loaded |-> 0,
            new_booking_record |-> <<>>]
\* A response: the route served, the status code, the shape of the JSON body
\* ("error" and "message" are objects with that one key, "list" is an array,
\* "booking" the 201 object), what the body carries (the list, the booking
\* record, the id or email quoted in a message) and, for a booking,
\* class_remaining_slots.
NoResp == [route |-> "none", code |-> 0, shape |-> "none", body |-> <<>>, remaining |-> 0]

Response(route, code, shape, body, remaining) ==
    [route |-> route, code |-> code, shape |-> shape, body |-> body,
     remaining |-> remaining]

\* The id of the i-th class created by the g-th reset.
ClassUuid(g, i) == (g - 1) * NumSeeds + i

\* The class dicts still referenced from the list cl or from a handler's
\* target_class; the others are freed.
Referenced(h, cl, loc) ==
    LET live == ({cl[i] : i \in DOMAIN cl} \cup {loc[t].target_class : t \in Threads})
                    \ {NoTarget}
    IN [id \in live |-> h[id]]

\* The process after import of app.py, with capacity cut-off c: no handler
\* has run and neither global is bound.
ProcessStart(c) ==
    /\ bound = {}
    /\ classes = <<>>
    /\ bookings = <<>>
    /\ heap = <<>>
    /\ resets = 0
    /\ uuids = 0
    /\ pc = [t \in Threads |-> "idle"]
    /\ local = [t \in Threads |-> NoLocal]
    /\ resp = NoResp
    /\ cap = c

Init == ProcessStart(SlotCap)

\* ------------------------------------------------- POST /test/reset_data
SeedClass(g, i) ==
    [id |-> ClassUuid(g, i),
     name |-> SeedNames[i],
     instructor |-> SeedInstructors[i],
     total_slots |-> Min(SeedTotalSlots[i], cap),
     available_slots |-> Min(SeedTotalSlots[i], cap)]

\* Lines 30-63: classes = [ ... four fresh dicts ... ]
ResetClasses(t) ==
    /\ pc[t] = "idle"
    /\ resets < MaxResets
    /\ resets' = resets + 1
    /\ classes' = [i \in 1..NumSeeds |-> ClassUuid(resets + 1, i)]
    /\ heap' = Referenced(
            [id \in DOMAIN heap \cup {ClassUuid(resets + 1, i) : i \in 1..NumSeeds} |->
                IF id \in DOMAIN heap THEN heap[id]
                ELSE SeedClass(resets + 1, id - resets * NumSeeds)],
            classes', local)
    /\ bound' = bound \cup {"classes"}
    /\ pc' = [pc EXCEPT ![t] = "reset_bookings"]
    /\ UNCHANGED <<bookings, uuids, local, resp, cap>>

\* ResetBookings that leaves the ledger as it is.
ResetBookingsKeep(t) ==
    /\ pc[t] = "reset_bookings"
    /\ bound' = bound \cup {"bookings"}
    /\ pc' = [pc EXCEPT ![t] = "idle"]
    /\ resp' = Response("reset", OK, "message", <<>>, 0)
    /\ UNCHANGED <<classes, bookings, heap, resets, uuids, local, cap>>

\* Lines 65-68: bookings = [] ; return 200
ResetBookings(t) ==
    /\ pc[t] = "reset_bookings"
    /\ bookings' = <<>>
    /\ bound' = bound \cup {"bookings"}
    /\ pc' = [pc EXCEPT ![t] = "idle"]
    /\ resp' = Response("reset", OK, "message", <<>>, 0)
    /\ UNCHANGED <<classes, heap, resets, uuids, local, cap>>

\* ------------------------------------------------------- GET /classes
\* Lines 73-82: jsonify(classes)
GetAllFitnessClasses(t) ==
    /\ pc[t] = "idle"
    /\ resp' = IF "classes" \in bound
               THEN Response("classes", OK, "list",
                             [i \in DOMAIN classes |-> heap[classes[i]]], 0)
               ELSE Response("classes", ServerError, "error", <<>>, 0)
    /\ UNCHANGED <<bound, classes, bookings, heap, resets, uuids, pc, local, cap>>

\* ---------------------------------------------------------- POST /book
\* The class ids a client can send: falsy, unknown, or the id of a bookable
\* class of any catalog created so far (a stale id after a reset).
ClassIdInputs ==
    {NoId, BadId} \cup {ClassUuid(g, i) : g \in 1..resets, i \in 1..NumBookable}

\* The POST /book requests a client can send: one without a JSON body, and
\* every body with the three fields.
BookInputs ==
    {[has_body |-> FALSE, class_id |-> NoId, client_name |-> EmptyStr,
      client_email |-> EmptyStr]}
    \cup [has_body : {TRUE}, class_id : ClassIdInputs, client_name : ClientNames,
          client_email : ClientEmails]

\* AllFields that forgets client_email.
AllFieldsNoEmail(class_id, client_name, client_email) ==
    TruthyId(class_id) /\ TruthyStr(client_name)

\* all([class_id, client_name, client_email])
AllFields(class_id, client_name, client_email) ==
    TruthyId(class_id) /\ TruthyStr(client_name) /\ TruthyStr(client_email)

\* FindClass that falls back on the first class when none matches.
FindClassFallback(class_id) ==
    LET hits == {i \in DOMAIN classes : heap[classes[i]].id = class_id}
    IN IF hits = {} THEN classes[1]
       ELSE classes[CHOOSE i \in hits : \A j \in hits : i <= j]

\* for cls in classes: if cls['id'] == class_id: target_class = cls; break
FindClass(class_id) ==
    LET hits == {i \in DOMAIN classes : heap[classes[i]].id = class_id}
    IN IF hits = {} THEN NoTarget
       ELSE classes[CHOOSE i \in hits : \A j \in hits : i <= j]

\* Lines 93-117: parse the body, validate the fields (400), search the class
\* (404).  The first shared read is that of the global `classes`, which
\* raises NameError (500) while the name is unbound; the steps before it are
\* local to the request, so they form one step with it.
BookLookup(t, has_body, class_id, client_name, client_email) ==
    /\ pc[t] = "idle"
    /\ IF ~(has_body /\ AllFields(class_id, client_name, client_email))
       THEN /\ resp' = Response("book", BadRequest, "error", <<>>, 0)
            /\ UNCHANGED <<pc, local>>
       ELSE IF "classes" \notin bound
       THEN /\ resp' = Response("book", ServerError, "error", <<>>, 0)
            /\ UNCHANGED <<pc, local>>
       ELSE IF FindClass(class_id) = NoTarget
       THEN /\ resp' = Response("book", NotFound, "error", class_id, 0)
            /\ UNCHANGED <<pc, local>>
       ELSE /\ local' = [local EXCEPT ![t] =
                    [NoLocal EXCEPT !.class_id = class_id,
                                    !.client_name = client_name,
                                    !.client_email = client_email,
                                    !.target_class = FindClass(class_id)]]
            /\ pc' = [pc EXCEPT ![t] = "check"]
            /\ UNCHANGED resp
    /\ UNCHANGED <<bound, classes, bookings, heap, resets, uuids, cap>>

\* BookCheck with the test `< 0` in place of `<= 0`.
BookCheckStrict(t) ==
    /\ pc[t] = "check"
    /\ IF heap[local[t].target_class].available_slots < 0
       THEN /\ resp' = Response("book", Conflict, "error", <<>>, 0)
            /\ pc' = [pc EXCEPT ![t] = "idle"]
            /\ local' = [local EXCEPT ![t] = NoLocal]
            /\ heap' = Referenced(heap, classes, local')
       ELSE /\ pc' = [pc EXCEPT ![t] = "load"]
            /\ local' = [local EXCEPT ![t].observed =
                            heap[local[t].target_class].available_slots]
            /\ UNCHANGED <<resp, heap>>
    /\ UNCHANGED <<bound, classes, bookings, resets, uuids, cap>>

\* Lines 119-122: if target_class['available_slots'] <= 0: return 409
BookCheck(t) ==
    /\ pc[t] = "check"
    /\ IF heap[local[t].target_class].available_slots <= 0
       THEN /\ resp' = Response("book", Conflict, "error", <<>>, 0)
            /\ pc' = [pc EXCEPT ![t] = "idle"]
            /\ local' = [local EXCEPT ![t] = NoLocal]
            /\ heap' = Referenced(heap, classes, local')
       ELSE /\ pc' = [pc EXCEPT ![t] = "load"]
            /\ local' = [local EXCEPT ![t].observed =
                            heap[local[t].target_class].available_slots]
            /\ UNCHANGED <<resp, heap>>
    /\ UNCHANGED <<bound, classes, bookings, resets, uuids, cap>>

\* Line 126, first half: read target_class['available_slots'].
BookLoad(t) ==
    /\ pc[t] = "load"
    /\ local' = [local EXCEPT ![t].loaded = heap[local[t].target_class].available_slots]
    /\ pc' = [pc EXCEPT ![t] = "store"]
    /\ UNCHANGED <<bound, classes, bookings, heap, resets, uuids, resp, cap>>

\* Line 126, second half: store the value read, less one.
BookStore(t) ==
    /\ pc[t] = "store"
    /\ heap' = [heap EXCEPT ![local[t].target_class].available_slots = local[t].loaded - 1]
    /\ pc' = [pc EXCEPT ![t] = "append"]
    /\ UNCHANGED <<bound, classes, bookings, resets, uuids, resp, local, cap>>

\* NewBookingRecord whose booking_id is derived from the class booked.
NewBookingRecordKeyedId(t) ==
    [booking_id |-> local[t].class_id,
     class_id |-> local[t].class_id,
     client_name |-> local[t].client_name,
     client_email |-> local[t].client_email]

\* Lines 129-135: the new booking record.
NewBookingRecord(t) ==
    [booking_id |-> uuids + 1,
     class_id |-> local[t].class_id,
     client_name |-> local[t].client_name,
     client_email |-> local[t].client_email]

\* BookAppend that inserts the record at the front of the ledger.
BookAppendFront(t) ==
    /\ pc[t] = "append"
    /\ uuids' = uuids + 1
    /\ IF "bookings" \notin bound
       THEN /\ resp' = Response("book", ServerError, "error", <<>>, 0)
            /\ pc' = [pc EXCEPT ![t] = "idle"]
            /\ local' = [local EXCEPT ![t] = NoLocal]
            /\ heap' = Referenced(heap, classes, local')
            /\ UNCHANGED bookings
       ELSE /\ bookings' = <<NewBookingRecord(t)>> \o bookings
            /\ local' = [local EXCEPT ![t].new_booking_record = NewBookingRecord(t)]
            /\ pc' = [pc EXCEPT ![t] = "return"]
            /\ UNCHANGED <<resp, heap>>
    /\ UNCHANGED <<bound, classes, resets, cap>>

\* Lines 128-137: build the record and bookings.append(new_booking_record).
BookAppend(t) ==
    /\ pc[t] = "append"
    /\ uuids' = uuids + 1
    /\ IF "bookings" \notin bound
       THEN /\ resp' = Response("book", ServerError, "error", <<>>, 0)
            /\ pc' = [pc EXCEPT ![t] = "idle"]
            /\ local' = [local EXCEPT ![t] = NoLocal]
            /\ heap' = Referenced(heap, classes, local')
            /\ UNCHANGED bookings
       ELSE /\ bookings' = Append(bookings, NewBookingRecord(t))
            /\ local' = [local EXCEPT ![t].new_booking_record = NewBookingRecord(t)]
            /\ pc' = [pc EXCEPT ![t] = "return"]
            /\ UNCHANGED <<resp, heap>>
    /\ UNCHANGED <<bound, classes, resets, cap>>

\* Lines 140-144: the 201 response reads target_class['available_slots'].
BookReturn(t) ==
    /\ pc[t] = "return"
    /\ resp' = Response("book", Created, "booking", local[t].new_booking_record,
                        heap[local[t].target_class].available_slots)
    /\ pc' = [pc EXCEPT ![t] = "idle"]
    /\ local' = [local EXCEPT ![t] = NoLocal]
    /\ heap' = Referenced(heap, classes, local')
    /\ UNCHANGED <<bound, classes, bookings, resets, uuids, cap>>

\* ------------------------------------------------------- GET /bookings
\* [booking for booking in bookings
\*      if booking['client_email'].lower() == client_email_query.lower()]
RECURSIVE ClientSpecificBookings(_, _)
ClientSpecificBookings(list, client_email_query) ==
    IF list = <<>> THEN <<>>
    ELSE LET rest == ClientSpecificBookings(Tail(list), client_email_query)
         IN IF Lower(Head(list).client_email) = Lower(client_email_query)
            THEN <<Head(list)>> \o rest
            ELSE rest

\* BookingsResponse without the branch of lines 167-169.
BookingsResponseAlwaysList(client_email_query) ==
    IF ~TruthyStr(client_email_query)
    THEN Response("bookings", BadRequest, "error", <<>>, 0)
    ELSE IF "bookings" \notin bound
    THEN Response("bookings", ServerError, "error", <<>>, 0)
    ELSE Response("bookings", OK, "list",
                  ClientSpecificBookings(bookings, client_email_query), 0)

\* Lines 153-172: what the handler returns for a query.
BookingsResponse(client_email_query) ==
    IF ~TruthyStr(client_email_query)
    THEN Response("bookings", BadRequest, "error", <<>>, 0)
    ELSE IF "bookings" \notin bound
    THEN Response("bookings", ServerError, "error", <<>>, 0)
    ELSE IF ClientSpecificBookings(bookings, client_email_query) = <<>>
    THEN Response("bookings", OK, "message", client_email_query, 0)
    ELSE Response("bookings", OK, "list",
                  ClientSpecificBookings(bookings, client_email_query), 0)

\* GetClientBookingsByEmail that filters the global ledger in place.
GetClientBookingsByEmailInPlace(t, client_email_query) ==
    /\ pc[t] = "idle"
    /\ resp' = BookingsResponse(client_email_query)
    /\ bookings' = IF TruthyStr(client_email_query) /\ "bookings" \in bound
                   THEN ClientSpecificBookings(bookings, client_email_query)
                   ELSE bookings
    /\ UNCHANGED <<bound, classes, heap, resets, uuids, pc, local, cap>>

GetClientBookingsByEmail(t, client_email_query) ==
    /\ pc[t] = "idle"
    /\ resp' = BookingsResponse(client_email_query)
    /\ UNCHANGED <<bound, classes, bookings, heap, resets, uuids, pc, local, cap>>

\* ------------------------------------------------------ specification
\* One step of the request thread t.
Step(t) ==
    \/ ResetClasses(t)
    \/ ResetBookings(t)
    \/ GetAllFitnessClasses(t)
    \/ \E in \in BookInputs :
            BookLookup(t, in.has_body, in.class_id, in.client_name, in.client_email)
    \/ BookCheck(t)
    \/ BookLoad(t)
    \/ BookStore(t)
    \/ BookAppend(t)
    \/ BookReturn(t)
    \/ \E client_email_query \in QueryEmails :
            GetClientBookingsByEmail(t, client_email_query)

Next == \E t \in Threads : Step(t)

Spec == Init /\ [][Next]_vars

\* The steps that carry on a POST /book request of thread t.
BookProgress(t) ==
    BookCheck(t) \/ BookLoad(t) \/ BookStore(t) \/ BookAppend(t) \/ BookReturn(t)

\* The server with a fair scheduler: a request handler that has started is
\* not starved by the other threads.
SpecFair ==
    Spec /\ \A t \in Threads : WF_vars(BookProgress(t)) /\ WF_vars(ResetBookings(t))

\* The query handler alone, started in the states the server is in after one
\* reset and n bookings made one after the other, the k-th on the k-th class.
SequentialLedger(emails) ==
    [k \in DOMAIN emails |->
        [booking_id |-> k, class_id |-> ClassUuid(1, k),
         client_name |-> <<"A", "l">>, client_email |-> emails[k]]]

\* The server after one reset and n bookings made one after the other under
\* the given emails, the k-th on the k-th class, with capacity cut-off c.
AfterSequentialBookings(emails, c) ==
    LET n == Len(emails)
    IN /\ bound = {"classes", "bookings"}
       /\ cap = c
       /\ classes = [i \in 1..NumSeeds |-> ClassUuid(1, i)]
       /\ heap = [id \in {ClassUuid(1, i) : i \in 1..NumSeeds} |->
                    [SeedClass(1, id) EXCEPT !.available_slots =
                        IF id <= n THEN @ - 1 ELSE @]]
       /\ bookings = SequentialLedger(emails)
       /\ resets = 1
       /\ uuids = n
       /\ pc = [t \in Threads |-> "idle"]
       /\ local = [t \in Threads |-> NoLocal]
       /\ resp = NoResp

\* POST /book requests alone, handled one at a time on the first thread,
\* after one reset that created classes of one slot more than SlotCap.
InitSolo == AfterSequentialBookings(<<>>, SlotCap + 1)

NextSolo ==
    LET t == CHOOSE u \in Threads : \A v \in Threads : u <= v
    IN \/ \E in \in BookInputs :
            BookLookup(t, in.has_body, in.class_id, in.client_name, in.client_email)
       \/ BookProgress(t)

SpecSolo == InitSolo /\ [][NextSolo]_vars

InitQuery ==
    \E n \in 0..Min(MaxLedger, NumSeeds) :
        \E emails \in [1..n -> QueryEmails \ {EmptyStr}] :
            AfterSequentialBookings(emails, SlotCap)

NextQuery ==
    \E t \in Threads, client_email_query \in QueryEmails :
        GetClientBookingsByEmail(t, client_email_query)

SpecQuery == InitQuery /\ [][NextQuery]_vars

\* The reset handler alone, with the seed capacities as app.py has them,
\* started at process start or after one reset and sequential bookings.
LargestSeed ==
    CHOOSE m \in {SeedTotalSlots[i] : i \in 1..NumSeeds} :
        \A i \in 1..NumSeeds : SeedTotalSlots[i] <= m

InitReset ==
    \/ ProcessStart(LargestSeed)
    \/ \E n \in 0..Min(MaxLedger, NumSeeds) :
            \E emails \in [1..n -> QueryEmails \ {EmptyStr}] :
                AfterSequentialBookings(emails, LargestSeed)

NextReset == \E t \in Threads : ResetClasses(t) \/ ResetBookings(t)

SpecReset == InitReset /\ [][NextReset]_vars

\* --------------------------------------------------------- properties
\* The catalog as GET /classes shows it: the class dicts in list order.
Catalog == [i \in DOMAIN classes |-> heap[classes[i]]]
CatalogIds == {classes[i] : i \in DOMAIN classes}

\* Number of ledger bookings of a class.
BookingsFor(id) == Cardinality({k \in DOMAIN bookings : bookings[k].class_id = id})

\* No POST /book request is between its first and its last step.
NoBookInProgress == \A t \in Threads : pc[t] \in {"idle", "reset_bookings"}

\* Thread t takes the step that leaves position p.
Leaves(t, p) == pc[t] = p /\ pc'[t] # p

\* The step changes neither the catalog nor the ledger.
StateUnchanged ==
    /\ bound' = bound
    /\ classes' = classes
    /\ Catalog' = Catalog
    /\ bookings' = bookings

\* C1: in every reachable state every class of the catalog has
\* 0 <= available_slots <= total_slots.
C1_SlotsInRange ==
    \A id \in CatalogIds :
        /\ 0 <= heap[id].available_slots
        /\ heap[id].available_slots <= heap[id].total_slots

\* C2: the number of successful bookings of a class (a call succeeds exactly
\* when it appends its record) never exceeds the class's total_slots.
C2_NoOversell ==
    \A id \in CatalogIds : BookingsFor(id) <= heap[id].total_slots

\* C3: when no bookClass call is in progress, after any interleaving of
\* bookClass calls (each record built was appended to the ledger of the one
\* completed reset), the bookings of every class number
\* total_slots - available_slots.
C3_LedgerMatchesSlots ==
    (/\ NoBookInProgress
     /\ resets = 1
     /\ bound = {"classes", "bookings"}
     /\ uuids = Len(bookings))
    => \A id \in CatalogIds :
            BookingsFor(id) = heap[id].total_slots - heap[id].available_slots

\* C4: a class that started with N slots takes exactly N bookings: once its
\* ledger bookings number N or more, they number exactly N and its
\* available_slots is 0 and stays 0.
C4_ExactlyNBookings ==
    \A id \in CatalogIds :
        BookingsFor(id) >= heap[id].total_slots
        => /\ BookingsFor(id) = heap[id].total_slots
           /\ heap[id].available_slots = 0

\* C5: a bookClass call that finds available_slots = 0 at its availability
\* check returns ClassFull (409), and no step of the call up to and including
\* that return changes the catalog or the ledger.
C5_FullClassRejected ==
    [][\A t \in Threads :
        /\ (Leaves(t, "check") /\ heap[local[t].target_class].available_slots = 0)
            => /\ resp'.route = "book"
               /\ resp'.code = Conflict
               /\ pc'[t] = "idle"
               /\ StateUnchanged
        /\ (pc[t] = "idle" /\ pc'[t] = "check") => StateUnchanged]_vars

\* A state in which a full class has just rejected a booking.
C5_Witness ==
    /\ resp.route = "book"
    /\ resp.code = Conflict
    /\ \E id \in CatalogIds : heap[id].available_slots = 0 /\ BookingsFor(id) > 0

\* The class_id matches no class of the catalog.
UnknownClass(class_id) ==
    /\ class_id # NoId
    /\ \A i \in DOMAIN classes : heap[classes[i]].id # class_id

\* C6 as stated: once a catalog exists, bookClass with a class_id that
\* matches no class fails with ClassNotFound (404) whatever the other fields
\* hold, and changes nothing.
C6_UnknownClassAnyFields ==
    [][\A t \in Threads, class_id \in ClassIdInputs,
          client_name \in ClientNames, client_email \in ClientEmails :
        (/\ "classes" \in bound
         /\ UnknownClass(class_id)
         /\ BookLookup(t, TRUE, class_id, client_name, client_email))
        => /\ resp'.route = "book"
           /\ resp'.code = NotFound
           /\ StateUnchanged]_vars

\* C6 amended: once a catalog exists, bookClass with non-empty client_name
\* and client_email and a class_id that matches no class fails with
\* ClassNotFound (404), the call ends there and changes nothing.
C6_UnknownClassNotFound ==
    [][\A t \in Threads, class_id \in ClassIdInputs,
          client_name \in ClientNames, client_email \in ClientEmails :
        (/\ "classes" \in bound
         /\ UnknownClass(class_id)
         /\ client_name # EmptyStr
         /\ client_email # EmptyStr
         /\ BookLookup(t, TRUE, class_id, client_name, client_email))
        => /\ resp'.route = "book"
           /\ resp'.code = NotFound
           /\ resp'.body = class_id
           /\ pc'[t] = "idle"
           /\ StateUnchanged]_vars

\* A state in which a booking of an unknown class has just been refused
\* while the catalog holds a class with a booking.
C6_Witness ==
    /\ resp.route = "book"
    /\ resp.code = NotFound
    /\ "classes" \in bound
    /\ UnknownClass(resp.body)
    /\ bookings # <<>>

\* C7: bookClass with no body or with an empty or absent class_id,
\* client_name or client_email fails with InvalidInput (400); the call ends
\* there and changes neither the catalog nor the ledger.
C7_MissingFieldsRejected ==
    [][\A t \in Threads, in \in BookInputs :
        (/\ (~in.has_body \/ in.class_id = NoId \/ in.client_name = EmptyStr
                \/ in.client_email = EmptyStr)
         /\ BookLookup(t, in.has_body, in.class_id, in.client_name, in.client_email))
        => /\ resp'.route = "book"
           /\ resp'.code = BadRequest
           /\ pc'[t] = "idle"
           /\ local' = local
           /\ heap' = heap
           /\ StateUnchanged]_vars

\* A state in which a booking with a missing field has just been refused
\* although its class has a free slot.
C7_Witness ==
    /\ resp.route = "book"
    /\ resp.code = BadRequest
    /\ \E id \in CatalogIds : heap[id].available_slots > 0

\* C8: the class_remaining_slots of a 201 response is one less than the
\* available_slots the call read at its availability check.
C8_RemainingIsOwnDecrement ==
    [][\A t \in Threads :
        Leaves(t, "return")
        => /\ resp'.code = Created
           /\ resp'.remaining = local[t].observed - 1]_vars

\* Two emails are equal ignoring letter case.
CasePairs == {<<"A", "a">>, <<"a", "A">>, <<"B", "b">>, <<"b", "B">>}
EqualIgnoringCase(a, b) ==
    /\ Len(a) = Len(b)
    /\ \A i \in DOMAIN a : a[i] = b[i] \/ <<a[i], b[i]>> \in CasePairs

\* The ledger bookings whose client_email equals q ignoring case, in
\* insertion order.
Matching(q) ==
    LET SameClient(b) == EqualIgnoringCase(b.client_email, q)
    IN SelectSeq(bookings, SameClient)

\* C9 as stated: for a non-empty email (the ledger exists) bookingsForClient
\* returns the list of exactly the ledger bookings whose client_email equals
\* it ignoring case, in insertion order.
C9_ReturnsMatchingList ==
    [][\A t \in Threads, q \in QueryEmails :
        (/\ q # EmptyStr
         /\ "bookings" \in bound
         /\ GetClientBookingsByEmail(t, q))
        => /\ resp'.route = "bookings"
           /\ resp'.code = OK
           /\ resp'.shape = "list"
           /\ resp'.body = Matching(q)]_vars

\* C9 amended: when at least one ledger booking has that email ignoring
\* case, bookingsForClient returns the list of exactly those bookings, in
\* insertion order.
C9_ReturnsMatchingListIfAny ==
    [][\A t \in Threads, q \in QueryEmails :
        (/\ q # EmptyStr
         /\ Matching(q) # <<>>
         /\ GetClientBookingsByEmail(t, q))
        => /\ resp'.route = "bookings"
           /\ resp'.code = OK
           /\ resp'.shape = "list"
           /\ resp'.body = Matching(q)]_vars

\* A state in which a query has just returned bookings made under emails
\* that differ in case, and left out a booking of another email.
C9_Witness ==
    /\ resp.route = "bookings"
    /\ resp.shape = "list"
    /\ Len(resp.body) < Len(bookings)
    /\ \E i, j \in DOMAIN resp.body :
            i < j /\ resp.body[i].client_email # resp.body[j].client_email

\* C10 as stated: for a non-empty email that no ledger booking has (the
\* ledger exists), bookingsForClient returns a success whose body is the
\* empty list.
C10_NoMatchIsEmptyList ==
    [][\A t \in Threads, q \in QueryEmails :
        (/\ q # EmptyStr
         /\ "bookings" \in bound
         /\ Matching(q) = <<>>
         /\ GetClientBookingsByEmail(t, q))
        => /\ resp'.route = "bookings"
           /\ resp'.code = OK
           /\ resp'.shape = "list"
           /\ resp'.body = <<>>]_vars

\* C10 amended: for a non-empty email that no booking of the existing
\* ledger has, bookingsForClient returns a success (200) whose body is a
\* message object quoting the email, not a list; it differs from the
\* InvalidInput (400) of an empty or absent email.
C10_NoMatchIsMessage ==
    [][\A t \in Threads, q \in QueryEmails :
        (/\ q # EmptyStr
         /\ "bookings" \in bound
         /\ Matching(q) = <<>>
         /\ GetClientBookingsByEmail(t, q))
        => /\ resp'.route = "bookings"
           /\ resp'.code = OK
           /\ resp'.shape = "message"
           /\ resp'.body = q
           /\ resp'.code # BookingsResponse(EmptyStr).code]_vars

\* A state in which a query has just found no booking in a ledger that
\* holds bookings of other emails.
C10_Witness ==
    /\ resp.route = "bookings"
    /\ resp.code = OK
    /\ resp.shape = "message"
    /\ bookings # <<>>

\* C11: in every state, the one at process start included, listAllClasses
\* answers with a success (200) whose body is the list of all classes of the
\* catalog in creation order.
C11_ListNeverFails ==
    [][\A t \in Threads :
        GetAllFitnessClasses(t)
        => /\ resp'.route = "classes"
           /\ resp'.code = OK
           /\ resp'.shape = "list"
           /\ resp'.body = Catalog]_vars

\* C12: when resetState completes, whatever the state it started from, the
\* catalog holds exactly the four seed classes in order, with total_slots
\* 18, 12, 25 and 14 and available_slots equal to total_slots, and the ledger
\* is empty.
C12_ResetRestoresSeed ==
    [][\A t \in Threads :
        ResetBookings(t)
        => /\ bound' = {"classes", "bookings"}
           /\ Len(classes') = 4
           /\ \A i, j \in 1..4 : i # j => classes'[i] # classes'[j]
           /\ \A i \in 1..4 :
                /\ Catalog'[i].name = SeedNames[i]
                /\ Catalog'[i].total_slots = <<18, 12, 25, 14>>[i]
                /\ Catalog'[i].available_slots = Catalog'[i].total_slots
           /\ bookings' = <<>>]_vars

\* A reset has just completed in a server that had taken bookings.
C12_Witness ==
    /\ resp.route = "reset"
    /\ \A t \in Threads : pc[t] = "idle"
    /\ uuids > 0
    /\ resets = 2
    /\ bookings = <<>>
    /\ Catalog[3].available_slots = 25

\* C13: in every state in which no reset is between its two assignments,
\* also after a reset has interleaved with a bookClass call in progress, every
\* booking of the ledger has the class_id of a class of the catalog.
C13_NoDanglingClassRef ==
    (\A t \in Threads : pc[t] # "reset_bookings")
    => \A k \in DOMAIN bookings : bookings[k].class_id \in CatalogIds

\* The list a is an initial segment of the list b.
IsPrefix(a, b) == Len(a) <= Len(b) /\ SubSeq(b, 1, Len(a)) = a

\* C14: across every step that is not the ledger assignment of a reset (the
\* steps of bookClass, listAllClasses and bookingsForClient), the ledger
\* before the step is a prefix of the ledger after it: no booking is removed,
\* reordered or modified.
C14_LedgerAppendOnly ==
    [][(\A t \in Threads : ~Leaves(t, "reset_bookings"))
        => IsPrefix(bookings, bookings')]_vars

\* A bookClass call has just appended its booking to a ledger that already
\* held one.
C14_Witness ==
    /\ Len(bookings) >= 2
    /\ \E t \in Threads :
            /\ pc[t] = "return"
            /\ bookings[Len(bookings)] = local[t].new_booking_record

\* The class dict d with its available_slots left out.
OtherFields(d) == [d EXCEPT !.available_slots = 0]

\* C15: a successful bookClass call changes exactly two things.  Its write
\* to the class (line 126) lowers available_slots of that class by exactly 1
\* and leaves the other fields of the class, every other class and the ledger
\* as they are; its write to the ledger (line 137) appends exactly one
\* booking with the call's class_id, name and email and leaves the classes as
\* they are; its other steps change neither.
C15_BookingChangesTwoThings ==
    [][\A t \in Threads :
        /\ Leaves(t, "store")
            => LET c == local[t].target_class
               IN /\ heap'[c].available_slots = heap[c].available_slots - 1
                  /\ OtherFields(heap'[c]) = OtherFields(heap[c])
                  /\ \A id \in DOMAIN heap \ {c} : heap'[id] = heap[id]
                  /\ classes' = classes
                  /\ bookings' = bookings
        /\ (Leaves(t, "append") /\ pc'[t] = "return")
            => /\ Len(bookings') = Len(bookings) + 1
               /\ IsPrefix(bookings, bookings')
               /\ bookings'[Len(bookings')].class_id = local[t].class_id
               /\ bookings'[Len(bookings')].client_name = local[t].client_name
               /\ bookings'[Len(bookings')].client_email = local[t].client_email
               /\ classes' = classes
               /\ heap' = heap
        /\ (Leaves(t, "check") \/ Leaves(t, "load") \/ Leaves(t, "return"))
            => StateUnchanged]_vars

\* C16: between resets no slot is released.  Across every step,
\* available_slots of every class that stays in the catalog does not
\* increase and, once 0, stays 0; and a bookClass call with non-empty fields
\* whose availability check finds the class at 0 fails with ClassFull (409).
C16_NoSlotReleased ==
    [][/\ \A id \in CatalogIds \cap CatalogIds' :
            /\ heap'[id].available_slots <= heap[id].available_slots
            /\ heap[id].available_slots = 0 => heap'[id].available_slots = 0
       /\ \A t \in Threads :
            (Leaves(t, "check") /\ heap[local[t].target_class].available_slots = 0)
            => resp'.code = Conflict]_vars

\* C17: the query operations have no side effects.  A listAllClasses
\* step, and a bookingsForClient step in each of its outcomes (matches
\* found, no match, InvalidInput for an empty or absent email), leaves the
\* catalog, every class dict and the ledger unchanged.
C17_QueriesChangeNothing ==
    [][\A t \in Threads :
        /\ GetAllFitnessClasses(t) => (StateUnchanged /\ heap' = heap)
        /\ \A q \in QueryEmails :
            GetClientBookingsByEmail(t, q) => (StateUnchanged /\ heap' = heap)]_vars

\* A query has just found some but not all bookings of the ledger, while a
\* class of the catalog has fewer slots than at its creation.
C17_Witness ==
    /\ resp.route = "bookings"
    /\ resp.shape = "list"
    /\ 0 < Len(resp.body)
    /\ Len(resp.body) < Len(bookings)
    /\ \E id \in CatalogIds : heap[id].available_slots < heap[id].total_slots

\* The request carries no body or an empty field.
MissingField(in) ==
    \/ ~in.has_body
    \/ in.class_id = NoId
    \/ in.client_name = EmptyStr
    \/ in.client_email = EmptyStr

\* C18: bookClass applies its checks in the order field validation, class
\* lookup, availability.  A call with a missing field returns InvalidInput
\* (400) whatever the class; else a call whose class_id matches no class of
\* the catalog returns ClassNotFound (404); else a call whose availability
\* check finds available_slots = 0 returns ClassFull (409); else the call
\* goes on through its decrement and append and returns success (201).
C18_ChecksInOrder ==
    [][\A t \in Threads :
        /\ \A in \in BookInputs :
            BookLookup(t, in.has_body, in.class_id, in.client_name, in.client_email)
            => IF MissingField(in)
               THEN resp'.route = "book" /\ resp'.code = BadRequest /\ pc'[t] = "idle"
               ELSE IF \A i \in DOMAIN classes : heap[classes[i]].id # in.class_id
               THEN resp'.route = "book" /\ resp'.code = NotFound /\ pc'[t] = "idle"
               ELSE pc'[t] = "check"
        /\ Leaves(t, "check")
            => IF heap[local[t].target_class].available_slots = 0
               THEN resp'.route = "book" /\ resp'.code = Conflict /\ pc'[t] = "idle"
               ELSE heap[local[t].target_class].available_slots > 0 => pc'[t] = "load"
        /\ Leaves(t, "load") => pc'[t] = "store"
        /\ Leaves(t, "store") => pc'[t] = "append"
        /\ Leaves(t, "append") => pc'[t] = "return"
        /\ Leaves(t, "return")
            => resp'.route = "book" /\ resp'.code = Created /\ pc'[t] = "idle"]_vars

\* Thread t is inside a POST /book request.
Booking(t) == pc[t] \in {"check", "load", "store", "append", "return"}

\* Under the fair scheduler every started POST /book request reaches its
\* return: the handler has no loop beside the bounded search and takes no
\* lock.
EveryBookingCompletes == \A t \in Threads : Booking(t) ~> (pc[t] = "idle")

\* C19: every bookClass call that completes, whatever runs beside it,
\* returns one of success (201), InvalidInput (400), ClassNotFound (404) and
\* ClassFull (409).
C19_CompletesWithListedOutcome ==
    [][\A t \in Threads :
        (\/ Booking(t) /\ pc'[t] = "idle"
         \/ \E in \in BookInputs :
                /\ BookLookup(t, in.has_body, in.class_id, in.client_name,
                              in.client_email)
                /\ pc'[t] = "idle")
        => /\ resp'.route = "book"
           /\ resp'.code \in {Created, BadRequest, NotFound, Conflict}]_vars

\* The ledger bookings with the class_id and client_email of the call that
\* thread t is handling.
SameClassAndEmail(t) ==
    {k \in DOMAIN bookings :
        /\ bookings[k].class_id = local[t].class_id
        /\ bookings[k].client_email = local[t].client_email}

\* C20: bookClass performs no duplicate check.  A call whose class_id and
\* client_email are those of a booking already in the ledger passes the
\* availability check whenever available_slots > 0, lowers available_slots
\* by one more, appends a further booking whose booking_id differs from
\* every booking_id in the ledger, and returns success (201).
C20_DuplicateBookingSucceeds ==
    [][\A t \in Threads :
        SameClassAndEmail(t) # {}
        => /\ (Leaves(t, "check") /\ heap[local[t].target_class].available_slots > 0)
                => pc'[t] = "load"
           /\ Leaves(t, "load") => pc'[t] = "store"
           /\ Leaves(t, "store")
                => /\ heap'[local[t].target_class].available_slots =
                        heap[local[t].target_class].available_slots - 1
                   /\ pc'[t] = "append"
           /\ Leaves(t, "append")
                => /\ Len(bookings') = Len(bookings) + 1
                   /\ IsPrefix(bookings, bookings')
                   /\ bookings'[Len(bookings')].class_id = local[t].class_id
                   /\ bookings'[Len(bookings')].client_email = local[t].client_email
                   /\ \A k \in DOMAIN bookings :
                        bookings[k].booking_id # bookings'[Len(bookings')].booking_id
                   /\ pc'[t] = "return"
           /\ (Leaves(t, "return") /\ Cardinality(SameClassAndEmail(t)) >= 2)
                => resp'.route = "book" /\ resp'.code = Created]_vars

\* One client has just taken the last slot of a class all of whose slots
\* it holds: the class has more than one slot, none free, and as many ledger
\* bookings as slots, all under one email and with different booking_ids.
C20_Witness ==
    /\ resp.route = "book"
    /\ resp.code = Created
    /\ \E id \in CatalogIds :
            /\ heap[id].total_slots > 1
            /\ heap[id].available_slots = 0
            /\ BookingsFor(id) = heap[id].total_slots
            /\ \A j, k \in DOMAIN bookings :
                    (bookings[j].class_id = id /\ bookings[k].class_id = id)
                    => /\ bookings[j].client_email = bookings[k].client_email
                       /\ (j # k => bookings[j].booking_id # bookings[k].booking_id)

====
